---- MODULE Spec2Model ----
(***************************************************************************)
(* pip-local: resolution of a closed set of wheels for a target runtime.   *)
(* The model covers the candidate selector (src/src/wheel_index.py) and    *)
(* the resolution driver (the __main__ script of src/src/main.py).         *)
(***************************************************************************)
EXTENDS Integers, Sequences, FiniteSets, TLC

\* Bounds of the swept selector inputs and of the driver's worklist.
MaxRel == 2
MaxIdx == 2
MaxWork == 4
MaxRejected == 3
MaxCheckRel == 5
MaxMarkers == 2
MaxBytes == 2
MaxCalls == 4

VARIABLES
    remote,         \* package name -> parsed listing of the remote index page
    meta,           \* wheel file name -> metadata read by parse_wheels_dependency
    req,            \* the input requirements, in dict order
    CACHE_INDEX,    \* wheel_index.CACHE_INDEX
    index_files,    \* the files index/<name>.json: package name -> content
    fetched,        \* the outcomes of the page requests of the last get_wheel_index
    page,           \* package name -> the links of the index page, as served
    requires_dist,  \* wheel file name -> the Requires-Dist entries, as written
    new_req,        \* package name -> [package_extra, package_version]
    dep_pkg_names,  \* the worklist
    root_i,         \* position of the root loop in req_pkg_names
    pkg_name,       \* the package being resolved
    pkg_spec,       \* the constraint handed to get_suitable_package
    pkg_extra,      \* the extras used for the marker evaluation
    best_match,     \* the candidate being downloaded / verified
    candidate,      \* the fallback ordering
    tried,          \* the artifacts handed to download_package for pkg_name
    resolved,       \* package name -> artifact whose dependencies were merged
    wheels,         \* the files of the wheels directory: name -> content
    tmp,            \* the files of the tmp directory: name -> content
    http,           \* the requests download_package sent, with their responses
    ret,            \* the value the last call of download_package returned
    pc,             \* position of the script
    err             \* the exception that ended the run, if any

vars == <<remote, meta, req, page, requires_dist, CACHE_INDEX, index_files, fetched, new_req, dep_pkg_names, root_i,
          pkg_name, pkg_spec, pkg_extra, best_match, candidate, tried,
          resolved, wheels, tmp, http, ret, pc, err>>

-----------------------------------------------------------------------------
\* Versions (packaging.version.Version): a release number, a pre-release
\* phase and a local label ("" when the version has none, as in 2.5.1 against
\* 2.5.1+cu118); dev < rc < final within one release, and among equal public
\* versions the one without a label is the smallest.

PreKinds == {"dev", "rc", "final"}

PreRank(p) == CASE p = "dev" -> 0 [] p = "rc" -> 1 [] OTHER -> 2

\* The labels of the three find-links channels of the torch family.
Locals == {"cu118", "cu126", "cu128"}

LocalRank(l) == CASE l = "" -> 0 [] l = "cu118" -> 1 [] l = "cu126" -> 2
                  [] OTHER -> 3

Ver(r, p) == [rel |-> r, pre |-> p, local |-> ""]

\* A final release with a local label, e.g. 2.5.1+cu118.
LocalVer(r, l) == [rel |-> r, pre |-> "final", local |-> l]

\* Version.public: the version without its local label.
Public(v) == [v EXCEPT !.local = ""]

VerLt(a, b) == \/ a.rel < b.rel
               \/ a.rel = b.rel /\ PreRank(a.pre) < PreRank(b.pre)
               \/ a.rel = b.rel /\ a.pre = b.pre
                     /\ LocalRank(a.local) < LocalRank(b.local)

VerLe(a, b) == a = b \/ VerLt(a, b)

is_prerelease(v) == v.pre # "final"

is_devrelease(v) == v.pre = "dev"

\* One (operator, version) clause of a SpecifierSet, applied to a version.
\* "<V" excludes the pre-releases of V itself unless V is a pre-release.
\* "==", "!=", "<=" and ">=" against a version without a local label ignore
\* the label of v; ">V" excludes the labelled builds of V itself.
SpecifierContains(s, v) ==
    CASE s.op = "==" -> (IF s.ver.local = "" THEN Public(v) ELSE v) = s.ver
      [] s.op = "!=" -> (IF s.ver.local = "" THEN Public(v) ELSE v) # s.ver
      [] s.op = "<=" -> VerLe(Public(v), s.ver)
      [] s.op = ">=" -> VerLe(s.ver, Public(v))
      [] s.op = "<"  -> /\ VerLt(v, s.ver)
                        /\ ~(~is_prerelease(s.ver) /\ is_prerelease(v)
                             /\ v.rel = s.ver.rel)
      [] s.op = ">"  -> /\ VerLt(s.ver, v)
                        /\ ~(v.local # "" /\ v.rel = s.ver.rel)
      [] OTHER       -> FALSE

\* SpecifierSet.contains: a constraint is a conjunction of clauses.
Contains(c, v) == \A s \in c : SpecifierContains(s, v)

\* "&=" that keeps the right operand only.
Intersect_rhs(a, b) == b

\* SpecifierSet.__and__ : the clauses of both.
Intersect(a, b) == a \cup b

Ops == {"==", "!=", "<=", ">=", "<", ">"}

-----------------------------------------------------------------------------
\* Artifact descriptors and the runtime's compatibility list.

\* Python's None in the tags field, distinct from every tag collection.
None == {"None"}

\* get_compat_wheel_tags("3.12", ...): cpython tags first, then the generic ones.
compat_tags == <<"cp312-cp312-manylinux_x86_64", "cp312-abi3-manylinux_x86_64",
                 "py3-none-any">>

Range(s) == {s[i] : i \in 1..Len(s)}

NoEntry == [name |-> "", package_version |-> Ver(0, "final"),
            tags |-> None, extension |-> ""]

\* The position list.sort gives the i-th entry: behind the entries of a
\* smaller version and behind the earlier entries of the same version.
SortedPosition(s, i) ==
    1 + Cardinality({j \in 1..Len(s) :
            \/ VerLt(s[j].package_version, s[i].package_version)
            \/ s[j].package_version = s[i].package_version /\ j < i})

\* index_data.sort(key=lambda x: x["package_version"]), a stable sort.
SortByVersion(s) ==
    [k \in 1..Len(s) |-> s[CHOOSE i \in 1..Len(s) : SortedPosition(s, i) = k]]

\* filter_by_tag without the membership test.
filter_by_tag_any(x, sys_prof) == TRUE

filter_by_tag(x, sys_prof) ==
    IF x.tags = None THEN TRUE
    ELSE \E tag \in x.tags : tag \in Range(sys_prof)

\* filter_by_version without the pre-release and dev-release tests.
filter_by_version_keep_pre(x, pa_ver_spec) ==
    Contains(pa_ver_spec, x.package_version)

filter_by_version(x, pa_ver_spec) ==
    LET ver == x.package_version IN
    IF is_prerelease(ver) THEN FALSE
    ELSE IF is_devrelease(ver) THEN FALSE
    ELSE Contains(pa_ver_spec, ver)

filter_by_extrension(x) == x.extension = "whl"

\* The three filters of get_suitable_package, applied in the code's order.
Filtered(pa_index, pa_ver_spec, sys_prof) ==
    LET byTag(x) == filter_by_tag(x, sys_prof)
        byVer(x) == filter_by_version(x, pa_ver_spec)
        byExt(x) == filter_by_extrension(x)
    IN  SelectSeq(SelectSeq(SelectSeq(pa_index, byTag), byVer), byExt)

\* raised: the ValueError "No suitable package found".
get_suitable_package(pa_index, pa_ver_spec, sys_prof) ==
    LET filt_pa == Filtered(pa_index, pa_ver_spec, sys_prof) IN
    IF Len(filt_pa) = 0
    THEN [raised |-> TRUE, best |-> NoEntry, candidate |-> <<>>]
    ELSE [raised |-> FALSE, best |-> filt_pa[Len(filt_pa)],
          candidate |-> SubSeq(filt_pa, 1, Len(filt_pa) - 1)]

\* get_wheel_index without the sort of line 140.
FetchedIndex_unsorted(listing) == listing

\* The index get_wheel_index builds from a fetched listing.
FetchedIndex(listing) == SortByVersion(listing)

\* str(Version): the release, the suffix of the pre-release phase and the
\* local label.
VersionStr(v) ==
    [release |-> v.rel,
     suffix |-> CASE v.pre = "dev" -> ".dev1" [] v.pre = "rc" -> "rc1"
                  [] OTHER -> "",
     label |-> v.local]

\* Version(str) of a string str(Version) wrote.
ParseVersion(t) ==
    [rel |-> t.release,
     pre |-> CASE t.suffix = ".dev1" -> "dev" [] t.suffix = "rc1" -> "rc"
               [] OTHER -> "final",
     local |-> t.label]

\* The encoding that writes the release of a version without its
\* pre-release suffix.
encode_index_data_release(x) ==
    [x EXCEPT !.package_version = [VersionStr(@) EXCEPT !.suffix = ""]]

\* Lines 142-147.  A tag is modelled by its string, so list(map(str, tags))
\* keeps the collection as it is.
encode_index_data(x) == [x EXCEPT !.package_version = VersionStr(@)]

\* parse_tag of the string str(Tag) wrote: the one tag of that string.
parse_tag(t) == {t}

\* The decoding that gives an sdist an empty tag list.
decode_index_data_empty_tags(x) ==
    [x EXCEPT !.package_version = ParseVersion(@),
              !.tags = IF @ # None THEN UNION {parse_tag(t) : t \in @} ELSE {}]

\* Lines 115-123: the tags of a wheel are the concatenation of what parse_tag
\* gives for each string (wheels carry at least one); an sdist keeps None.
decode_index_data(x) ==
    [x EXCEPT !.package_version = ParseVersion(@),
              !.tags = IF @ # None THEN UNION {parse_tag(t) : t \in @} ELSE None]

\* The index page parser (src/src/wheel_index.py, lines 22-106).

\* A name as it is written: its words in lower case, the separator written
\* between them, and whether it is written with capital letters.
Written(w, s, c) == [words |-> w, sep |-> s, caps |-> c]

\* str.lower()
lower(n) == [n EXCEPT !.caps = FALSE]

\* str.replace("_", "-")
replace(n) == [n EXCEPT !.sep = "-"]

\* The pieces str.split("-") cuts a written name into.
split(n) ==
    IF n.sep = "-"
    THEN [i \in 1..Len(n.words) |-> Written(<<n.words[i]>>, "-", n.caps)]
    ELSE <<n>>

\* The text of a version in a file name: what str(Version) writes, or text
\* Version() rejects.
BadVersion == [release |-> 0, suffix |-> "x", label |-> ""]

InvalidVersion(t) == t.suffix \notin {"", ".dev1", "rc1"}

\* The tag segment of a wheel file name: the "."-compressed interpreters,
\* ABIs and platforms, in this order.
Segment(pys, abis, plats) == <<pys, abis, plats>>

\* A wheel file name with one "-" piece too few.
BadSegment == <<{"cp311"}, {"manylinux_x86_64"}>>

\* The tag "<interpreter>-<abi>-<platform>".
TagName(i, a, p) ==
    CASE <<i, a, p>> = <<"py3", "none", "any">> -> "py3-none-any"
      [] <<i, a, p>> = <<"py2", "none", "any">> -> "py2-none-any"
      [] <<i, a, p>> = <<"cp311", "cp311", "manylinux_x86_64">>
            -> "cp311-cp311-manylinux_x86_64"
      [] <<i, a, p>> = <<"cp312", "cp312", "manylinux_x86_64">>
            -> "cp312-cp312-manylinux_x86_64"
      [] <<i, a, p>> = <<"cp312", "abi3", "manylinux_x86_64">>
            -> "cp312-abi3-manylinux_x86_64"
      [] OTHER -> "other"

\* packaging's parse_tag on a segment of three parts: every combination.
parse_tag_segment(g) == {TagName(i, a, p) : i \in g[1], a \in g[2], p \in g[3]}

\* A file name "<name>-<version>[-<tag segment>].<ext>".
FileName(n, v, g, e) == [written |-> n, version |-> v, segment |-> g, ext |-> e]

\* The result of parse_file_name: none, or the four keys of lines 29-34
\* and 41-46.
NoPackage ==
    [none |-> TRUE, package_version |-> Ver(0, "final"), tags |-> None,
     extension |-> ""]

\* parse_file_name of lines 23-47 on a name filter_package kept, whose first
\* "-" piece is as long as pa_name.  The sdist branch reads the piece behind
\* it as the version; parse_wheel_filename reads the second piece as the
\* version and wants five or six pieces.
parse_file_name(pa_name, file_name) ==
    LET second == IF Len(split(file_name.written)) > 1 THEN BadVersion
                  ELSE file_name.version
    IN  IF file_name.ext = "tar.gz"
        THEN IF InvalidVersion(second) THEN NoPackage
             ELSE [none |-> FALSE, package_version |-> ParseVersion(second),
                   tags |-> None, extension |-> "tar.gz"]
        ELSE IF file_name.ext = "whl"
        THEN IF InvalidVersion(second) \/ Len(file_name.segment) # 3
             THEN NoPackage
             ELSE [none |-> FALSE, package_version |-> ParseVersion(second),
                   tags |-> parse_tag_segment(file_name.segment),
                   extension |-> "whl"]
        ELSE NoPackage

\* filter_package of lines 52-61.
filter_package(pa_name, x) ==
    LET name == x.name
        name_sep == split(name.written)
    IN  IF name.ext # "whl" /\ name.ext # "tar.gz" THEN FALSE
        ELSE IF replace(lower(name_sep[1])) # replace(lower(pa_name)) THEN FALSE
        ELSE TRUE

\* {**link, **package}
Merged(pa_name, link, package) ==
    [name |-> link.name, url |-> link.url, package_name |-> pa_name,
     package_version |-> package.package_version, tags |-> package.tags,
     extension |-> package.extension]

\* The pairing that filters the parsed packages before it zips them with
\* the links.
get_index_by_index_url_shifted(pa_name, links) ==
    LET links_data == SelectSeq(links, LAMBDA x : filter_package(pa_name, x))
        package_data == [i \in 1..Len(links_data) |->
                            parse_file_name(pa_name, links_data[i].name)]
        parsed == SelectSeq(package_data, LAMBDA q : ~q.none)
    IN  [i \in 1..Len(parsed) |-> Merged(pa_name, links_data[i], parsed[i])]

\* Lines 94-106 (and 72-84) on the links of the page served.
get_index_by_index_url(pa_name, links) ==
    LET links_data == SelectSeq(links, LAMBDA x : filter_package(pa_name, x))
        package_data == [i \in 1..Len(links_data) |->
                            parse_file_name(pa_name, links_data[i].name)]
        zipped == [i \in 1..Len(links_data) |->
                      [link |-> links_data[i], package |-> package_data[i]]]
        kept == SelectSeq(zipped, LAMBDA q : ~q.package.none)
    IN  [i \in 1..Len(kept) |-> Merged(pa_name, kept[i].link, kept[i].package)]

\* The package names of the parser runs, as they are written.
PaName(name) ==
    CASE name = "scikit-learn" -> Written(<<"scikit", "learn">>, "-", FALSE)
      [] name = "Scikit_Learn" -> Written(<<"scikit", "learn">>, "_", TRUE)
      [] name = "NumPy" -> Written(<<"numpy">>, "-", TRUE)
      [] OTHER -> Written(<<name>>, "-", FALSE)

\* The name in the URL of an index page: pa_name.lower().replace('_', '-').
NormalizedName(name) == replace(lower(PaName(name)))

\* The listing a fetch of name yields: parsed from the page where the page
\* is given, else the parsed listing itself.
Served(name) ==
    IF name \in DOMAIN page
    THEN get_index_by_index_url(PaName(name), page[name])
    ELSE remote[name]

\* A file of the index directory: text json.load accepts, holding a list of
\* entries, or text it does not accept.
JsonFile(entries) == [valid |-> TRUE, entries |-> entries]

CorruptFile == [valid |-> FALSE, entries |-> <<>>]

\* The file get_wheel_index writes for the index it fetched.
IndexFileOf(index_data) ==
    JsonFile([i \in 1..Len(index_data) |-> encode_index_data(index_data[i])])

\* get_wheel_index(name) takes one of three branches: the cached index
\* (lines 110-111), the file index/<name>.json (lines 125-130), the fetch
\* (lines 132-156).
IndexCached(name) == name \in DOMAIN CACHE_INDEX

IndexOnFile(name) == ~IndexCached(name) /\ name \in DOMAIN index_files

\* json.load raises on a file it cannot parse, and nothing catches it.
IndexFailed(name) == IndexOnFile(name) /\ ~index_files[name].valid

\* The value get_wheel_index(name) returns (empty when it raises).
IndexOf(name) ==
    IF IndexCached(name) THEN CACHE_INDEX[name]
    ELSE IF IndexOnFile(name)
    THEN LET index_json == index_files[name].entries IN
         [i \in 1..Len(index_json) |-> decode_index_data(index_json[i])]
    ELSE FetchedIndex(Served(name))

\* The names whose index is the concatenation of the three channels.
TorchFamily == {"torch", "torchvision", "torchaudio"}

\* The page requests a fetch of name sends, in order: lines 132-137.
Channels(name) ==
    IF name \in TorchFamily THEN <<"cu118", "cu126", "cu128">> ELSE <<"index">>

\* What the requests of one call may give: no request when the index is
\* cached or on file; else every page served (TRUE), or the pages up to the
\* first request that raises (FALSE), after which no further one is sent.
FetchOutcomes(name) ==
    IF IndexCached(name) \/ IndexOnFile(name) THEN {<<>>}
    ELSE LET n == Len(Channels(name)) IN
         {[i \in 1..n |-> TRUE]}
         \cup {[i \in 1..k |-> i < k] : k \in 1..n}

FetchOk(o) == \A i \in 1..Len(o) : o[i]

\* The index the caller gets under the outcome o (none when a request raised).
IndexGot(name, o) == IF FetchOk(o) THEN IndexOf(name) ELSE <<>>

\* CACHE_INDEX after the call: only the fetch branch stores the index.
CacheAfter(name) ==
    IF IndexCached(name) \/ IndexOnFile(name) THEN CACHE_INDEX
    ELSE [n \in DOMAIN CACHE_INDEX \cup {name} |->
            IF n = name THEN FetchedIndex(Served(name)) ELSE CACHE_INDEX[n]]

\* The index directory after the call: only the fetch branch writes a file.
FilesAfter(name) ==
    IF IndexCached(name) \/ IndexOnFile(name) THEN index_files
    ELSE [n \in DOMAIN index_files \cup {name} |->
            IF n = name THEN IndexFileOf(FetchedIndex(Served(name)))
            ELSE index_files[n]]

\* The store that keeps the index also when a page request raised.
StoreAfter_always(name, o) ==
    [CACHE_INDEX |-> CacheAfter(name), index_files |-> FilesAfter(name)]

\* The cache and the index directory after a call under the outcome o: a
\* request that raises leaves get_wheel_index before lines 149-154.
StoreAfter(name, o) ==
    IF FetchOk(o)
    THEN [CACHE_INDEX |-> CacheAfter(name), index_files |-> FilesAfter(name)]
    ELSE [CACHE_INDEX |-> CACHE_INDEX, index_files |-> index_files]

-----------------------------------------------------------------------------
\* The downloader (src/src/downloader.py).

\* The content of a remote artifact: MaxBytes distinct bytes.
RemoteBytes == [i \in 1..MaxBytes |-> i]

\* The value of a call that printed "Failed to download".
ReturnedNone == "None"

\* The content of the file n of the directory d, empty when there is none.
Bytes(d, n) == IF n \in DOMAIN d THEN d[n] ELSE <<>>

\* Lines 39-53: the Range header asks for the bytes behind a partial copy.
RequestOf(name) ==
    LET download_size == Len(Bytes(tmp, name)) IN
    [name |-> name, ranged |-> download_size > 0, from |-> download_size]

\* What the server may answer to a request: the whole artifact (200, also
\* to a request whose Range it ignores), the requested range (206), 416 to a
\* range that starts behind the artifact, or an error that survives the
\* retries (503).  received counts the body bytes that arrive before the
\* connection breaks.
Responses(q) ==
    {[status |-> 200, body |-> RemoteBytes, received |-> k] : k \in 0..MaxBytes}
    \cup (IF q.ranged /\ q.from < MaxBytes
          THEN {[status |-> 206,
                 body |-> SubSeq(RemoteBytes, q.from + 1, MaxBytes),
                 received |-> k] : k \in 0..(MaxBytes - q.from)}
          ELSE {})
    \cup (IF q.ranged /\ q.from >= MaxBytes
          THEN {[status |-> 416, body |-> <<>>, received |-> 0]}
          ELSE {})
    \cup {[status |-> 503, body |-> <<>>, received |-> 0]}

\* The directory d with the file n holding the content b.
WithFile(d, n, b) == [m \in DOMAIN d \cup {n} |-> IF m = n THEN b ELSE d[m]]

\* The directory d without the file n.
WithoutFile(d, n) == [m \in DOMAIN d \ {n} |-> d[m]]

\* The result of a call: its value and the state of the two directories and
\* of the request log behind it.
Outcome(v, w, t, h) == [ret |-> v, wheels |-> w, tmp |-> t, http |-> h]

\* The call that finds wheels/<name>: lines 30-32.
AlreadyDownloaded(name) == Outcome(name, wheels, tmp, http)

\* The transfer that moves the temp file into place whether or not the
\* stream broke.
Transfer_move_always(name, r) ==
    LET got == Bytes(tmp, name) \o SubSeq(r.body, 1, r.received)
        log == Append(http, [request |-> RequestOf(name), response |-> r])
    IN  IF r.status \notin {200, 206}
        THEN Outcome(ReturnedNone, wheels, tmp, log)
        ELSE Outcome(name, WithFile(wheels, name, got), WithoutFile(tmp, name), log)

\* Lines 34-84: the request, the append to the temp file, the move.
Transfer(name, r) ==
    LET got == Bytes(tmp, name) \o SubSeq(r.body, 1, r.received)
        log == Append(http, [request |-> RequestOf(name), response |-> r])
    IN  IF r.status \notin {200, 206}
        THEN Outcome(ReturnedNone, wheels, tmp, log)
        ELSE IF r.received < Len(r.body)
        THEN Outcome(ReturnedNone, wheels, WithFile(tmp, name, got), log)
        ELSE Outcome(name, WithFile(wheels, name, got), WithoutFile(tmp, name), log)

\* download_package without the test of lines 30-32.
download_package_refetch(name, r) == Transfer(name, r)

\* download_package(data) for data["name"] = name, answered by r.
download_package(name, r) ==
    IF name \in DOMAIN wheels THEN AlreadyDownloaded(name)
    ELSE Transfer(name, r)

-----------------------------------------------------------------------------
\* Marker evaluation and the merge of dependency declarations.

\* get_python_environment("3.12"), the attributes the markers below read.
py_env == [python_version |-> "3.12", sys_platform |-> "linux",
           platform_machine |-> "x86_64", os_name |-> "posix"]

\* Marker.evaluate({**py_env, "extra": e}) for a marker  var == "val".
Evaluate(marker, e) ==
    IF marker.var = "extra" THEN e = marker.val
    ELSE py_env[marker.var] = marker.val

\* check_package_dependency with one extra required to satisfy all the markers.
check_package_dependency_one_extra(pkg_dep, extra) ==
    LET ex == IF extra = {} THEN {""} ELSE extra IN
    \E e \in ex :
        \A i \in 1..Len(pkg_dep.package_markers) :
            Evaluate(pkg_dep.package_markers[i], e)

\* Lines 24-33: every marker must hold for some requested extra.
check_package_dependency(pkg_dep, extra) ==
    LET ex == IF extra = {} THEN {""} ELSE extra IN
    \A i \in 1..Len(pkg_dep.package_markers) :
        \E e \in ex : Evaluate(pkg_dep.package_markers[i], e)

\* The req_deps list: the declarations of a wheel active under the extras.
ReqDeps(pkg_deps, extra) ==
    LET active(d) == check_package_dependency(d, extra)
    IN  SelectSeq(pkg_deps, active)

\* The merge with the else branch taken for every declaration: an existing
\* requirement is replaced by the declaration.
MergeOne_overwrite(reqs, dep) ==
    [n \in DOMAIN reqs \cup {dep.package_name} |->
        IF n = dep.package_name
        THEN [package_extra |-> dep.package_extra,
              package_version |-> dep.package_version]
        ELSE reqs[n]]

\* One pass of the body of "for dep in req_deps" over the requirement map.
MergeOne(reqs, dep) ==
    LET dep_name == dep.package_name IN
    IF dep_name \in DOMAIN reqs
    THEN [reqs EXCEPT ![dep_name] =
            [package_extra |-> @.package_extra \cup dep.package_extra,
             package_version |-> Intersect(@.package_version, dep.package_version)]]
    ELSE [n \in DOMAIN reqs \cup {dep_name} |->
            IF n = dep_name
            THEN [package_extra |-> dep.package_extra,
                  package_version |-> dep.package_version]
            ELSE reqs[n]]

RECURSIVE MergeAll(_, _)
MergeAll(reqs, deps) ==
    IF deps = <<>> THEN reqs
    ELSE MergeAll(MergeOne(reqs, Head(deps)), Tail(deps))

\* The names appended with the last declaration left out.
DepNames_but_last(deps) == [i \in 1..(Len(deps) - 1) |-> deps[i].package_name]

\* dep_pkg_names.append(dep_name) for every declaration of req_deps.
DepNames(deps) == [i \in 1..Len(deps) |-> deps[i].package_name]

-----------------------------------------------------------------------------
\* The worlds of the driver: input requirements, remote listings and the
\* metadata of the wheels.

Whl(n, v, t) == [name |-> n, package_version |-> v, tags |-> t, extension |-> "whl"]

Sdist(n, v) == [name |-> n, package_version |-> v, tags |-> None, extension |-> "tar.gz"]

Final(r) == Ver(r, "final")

Clause(o, v) == [op |-> o, ver |-> v]

Decl(n, e, c, m) == [package_name |-> n, package_extra |-> e,
                     package_version |-> c, package_markers |-> m]

Root(n, e, c) == [package_name |-> n, package_extra |-> e, ver_spec |-> c]

ExtraIs(x) == [var |-> "extra", val |-> x]

EnvIs(k, x) == [var |-> k, val |-> x]

EmptyMap == [n \in {} |-> {}]

PyAny == {"py3-none-any"}
Cp312 == {"cp312-cp312-manylinux_x86_64"}
Cp311 == {"cp311-cp311-manylinux_x86_64"}

\* Listings as the index pages give them: in no particular order.
\* numpy: 1.24.0, 1.26.4, 2.0.1 as releases 1, 2, 4 (2.0.0 is release 3).
Listings ==
    [numpy |-> << Whl("numpy-2.0.1.whl", Final(4), PyAny),
                  Whl("numpy-1.24.0.whl", Final(1), PyAny),
                  Whl("numpy-1.26.4.whl", Final(2), PyAny) >>,
     A     |-> << Whl("A-2.whl", Final(2), PyAny),
                  Whl("A-3rc1.whl", Ver(3, "rc"), PyAny),
                  Whl("A-1.whl", Final(1), PyAny),
                  Sdist("A-3.tar.gz", Final(3)) >>,
     B     |-> << Whl("B-3-cp311.whl", Final(3), Cp311),
                  Whl("B-1.whl", Final(1), Cp312),
                  Whl("B-2.whl", Final(2), Cp311 \cup {"cp312-abi3-manylinux_x86_64"}),
                  Whl("B-3.whl", Final(3), Cp312) >>,
     C     |-> << Whl("C-1.whl", Final(1), PyAny),
                  Whl("C-2.whl", Final(2), PyAny) >>,
     D     |-> << Whl("D-1-cp311.whl", Final(1), Cp311),
                  Sdist("D-1.tar.gz", Final(1)) >> ]

\* The three find-links channels of the torch family; 2.4.0, 2.5.1 and 2.6.0
\* are the releases 1, 2 and 3.
TorchChannels ==
    [cu118 |-> << Whl("torch-2.5.1+cu118.whl", LocalVer(2, "cu118"), Cp312),
                  Whl("torch-2.4.0+cu118.whl", LocalVer(1, "cu118"), Cp312) >>,
     cu126 |-> << Whl("torch-2.5.1+cu126.whl", LocalVer(2, "cu126"), Cp312) >>,
     cu128 |-> << Whl("torch-2.6.0+cu128.whl", LocalVer(3, "cu128"), Cp312) >>]

\* Lines 132-135: the listings of the three channels, concatenated.
TorchListing == TorchChannels.cu118 \o TorchChannels.cu126 \o TorchChannels.cu128

\* Two installable wheels of one version, in the order of their file names.
TieListing ==
    << Whl("T-1-cp312-cp312-manylinux_x86_64.whl", Final(1), Cp312),
       Whl("T-1-py3-none-any.whl", Final(1), PyAny) >>

\* requires_dist of the wheels of a package, per world.
NoDeps == [numpy |-> <<>>, A |-> <<>>, B |-> <<>>, C |-> <<>>, D |-> <<>>]

Worlds ==
    { \* the end-to-end example: {"numpy": "<2.0.0"}
      [req  |-> << Root("numpy", {}, {Clause("<", Final(3))}) >>,
       deps |-> NoDeps],
      \* a chain with merges into new and into existing requirements
      [req  |-> << Root("A", {}, {}) >>,
       deps |-> [NoDeps EXCEPT
                 !.A = << Decl("B", {}, {Clause(">=", Final(1))}, <<>>),
                          Decl("C", {}, {Clause("<", Final(3))},
                               << EnvIs("sys_platform", "linux") >>),
                          Decl("D", {}, {}, << EnvIs("sys_platform", "win32") >>) >>,
                 !.B = << Decl("C", {"x"}, {Clause(">=", Final(2))}, <<>>) >>,
                 !.C = << Decl("B", {"y"}, {Clause("!=", Final(2))},
                               << ExtraIs("x") >>) >>]],
      \* a cycle: A declares B and B declares A
      [req  |-> << Root("A", {}, {Clause("<", Final(3))}) >>,
       deps |-> [NoDeps EXCEPT
                 !.A = << Decl("B", {}, {}, <<>>) >>,
                 !.B = << Decl("A", {"x"}, {Clause(">=", Final(1))}, <<>>) >>]],
      \* requirements no artifact satisfies: B pinned to a missing release,
      \* D published for another interpreter only
      [req  |-> << Root("A", {}, {}) >>,
       deps |-> [NoDeps EXCEPT
                 !.A = << Decl("C", {}, {}, <<>>),
                          Decl("B", {}, {Clause("==", Final(4))}, <<>>),
                          Decl("C", {}, {Clause("<=", Final(1))}, <<>>) >>,
                 !.C = << Decl("D", {}, {}, <<>>), Decl("A", {}, {}, <<>>) >>]],
      \* two root requirements with different constraints, which nothing
      \* else declares
      [req  |-> << Root("C", {"x"}, {Clause("<", Final(2))}),
                   Root("B", {}, {Clause(">=", Final(2))}) >>,
       deps |-> NoDeps],
      \* a root that a later root declares with an extra, under which it
      \* declares a further package
      [req  |-> << Root("C", {}, {}), Root("A", {}, {}) >>,
       deps |-> [NoDeps EXCEPT
                 !.A = << Decl("C", {"x"}, {}, <<>>) >>,
                 !.C = << Decl("numpy", {}, {}, << ExtraIs("x") >>) >>]],
      \* one package declared under two spellings, with a constraint under
      \* one of them only
      [req  |-> << Root("C", {}, {}) >>,
       deps |-> [NoDeps EXCEPT
                 !.C = << Decl("numpy", {}, {Clause("<", Final(3))}, <<>>),
                          Decl("NumPy", {"x"}, {}, <<>>) >>]] }

Packages == DOMAIN Listings

\* The names requirements and declarations are written with: those of the
\* listings and a second spelling of numpy.
Names == Packages \cup {"NumPy"}

\* The listing the index serves for a name as written: the page at the URL
\* of the normalised name, whose file names filter_package compares after
\* the same normalisation.
Published(name) ==
    Listings[CHOOSE p \in Packages : NormalizedName(p) = NormalizedName(name)]

WheelNames == UNION {{x.name : x \in {e \in Range(Listings[p]) : e.extension = "whl"}}
                     : p \in Packages}

PackageOf(file) == CHOOSE p \in Packages : \E x \in Range(Listings[p]) : x.name = file

\* The wheels a run on the world w can come to download: those of its root
\* packages and of the packages its declarations name.
WorldWheels(w) ==
    LET named == {w.req[i].package_name : i \in 1..Len(w.req)}
                 \cup UNION {{d.package_name : d \in Range(w.deps[p])} : p \in Packages}
    IN  {f \in WheelNames :
            \E n \in named : NormalizedName(n) = NormalizedName(PackageOf(f))}

\* parse_wheels_dependency(pkg_path): whether requires-python accepts the
\* target runtime (py_dep.contains(py_ver)) and the declarations.
MetaOf(w, rejected) ==
    [f \in WheelNames |-> [py_ok |-> f \notin rejected,
                           pkg_deps |-> w.deps[PackageOf(f)]]]

-----------------------------------------------------------------------------
\* The script of src/src/main.py.

\* new_req as lines 44-52 build it from the input.
RECURSIVE InitialReq(_)
InitialReq(rs) ==
    IF rs = <<>> THEN EmptyMap
    ELSE LET r == rs[Len(rs)]
             before == InitialReq(SubSeq(rs, 1, Len(rs) - 1))
         IN  [n \in DOMAIN before \cup {r.package_name} |->
                IF n = r.package_name
                THEN [package_extra |-> r.package_extra, package_version |-> r.ver_spec]
                ELSE before[n]]

\* ver_spec after the loop of lines 45-52: the constraint of the last input.
ver_spec == req[Len(req)].ver_spec

Init ==
    /\ \E w \in Worlds : \E rejected \in SUBSET WorldWheels(w) :
          /\ Cardinality(rejected) <= MaxRejected
          /\ req = w.req
          /\ meta = MetaOf(w, rejected)
    /\ remote = [n \in Names |-> Published(n)]
    /\ CACHE_INDEX = EmptyMap
    /\ index_files = EmptyMap
    /\ fetched = <<>>
    /\ page = EmptyMap
    /\ requires_dist = EmptyMap
    /\ new_req = InitialReq(req)
    /\ dep_pkg_names = <<>>
    /\ root_i = 1
    /\ pkg_name = ""
    /\ pkg_spec = {}
    /\ pkg_extra = {}
    /\ best_match = NoEntry
    /\ candidate = <<>>
    /\ tried = <<>>
    /\ resolved = EmptyMap
    /\ wheels = EmptyMap
    /\ tmp = EmptyMap
    /\ http = <<>>
    /\ ret = ""
    /\ pc = "root"
    /\ err = "none"

World == <<remote, meta, req, page, requires_dist>>

Fail(e) == /\ pc' = "failed"
           /\ err' = e

\* One call download_package(best_match) of the script, answered by some
\* server response, with the outcome failed or not.
DownloadCall(failed) ==
    \E r \in Responses(RequestOf(best_match.name)) :
        LET d == download_package(best_match.name, r) IN
        /\ (d.ret = ReturnedNone) = failed
        /\ wheels' = d.wheels
        /\ tmp' = d.tmp
        /\ http' = d.http
        /\ ret' = d.ret

\* download_package(best_match) returned the path of the file in wheels/.
Downloaded ==
    /\ DownloadCall(FALSE)
    /\ tried' = Append(tried, best_match)

\* The effect of a selection on the selection variables.
Selected(name, sel) ==
    /\ pkg_name' = name
    /\ best_match' = sel.best
    /\ candidate' = sel.candidate
    /\ tried' = <<>>

\* Lines 61-65: the next root requirement is looked up and selected.
RootSelect ==
    /\ pc = "root"
    /\ root_i <= Len(req)
    /\ \E o \in FetchOutcomes(req[root_i].package_name) :
       LET name == req[root_i].package_name
           sel == get_suitable_package(IndexGot(name, o), ver_spec, compat_tags)
       IN  /\ fetched' = o
           /\ CACHE_INDEX' = StoreAfter(name, o).CACHE_INDEX
           /\ index_files' = StoreAfter(name, o).index_files
           /\ pkg_spec' = ver_spec
           /\ pkg_extra' = new_req[name].package_extra
           /\ Selected(name, sel)
           /\ IF ~FetchOk(o) THEN Fail("TransportError")
              ELSE IF IndexFailed(name) THEN Fail("IndexFileError")
              ELSE IF sel.raised THEN Fail("NoSuitablePackage")
              ELSE pc' = "root_fetch" /\ err' = err
    /\ UNCHANGED <<World, new_req, dep_pkg_names, root_i, resolved, wheels, tmp, http, ret>>

\* The loop of lines 61-96 is over: the dependency loop starts.
RootDone ==
    /\ pc = "root"
    /\ root_i > Len(req)
    /\ pc' = "dep"
    /\ UNCHANGED <<World, CACHE_INDEX, index_files, fetched, new_req, dep_pkg_names, root_i, pkg_name,
                   pkg_spec, pkg_extra, best_match, candidate, tried, resolved, wheels, tmp, http, ret,
                   err>>

\* The failed download answered by the next fallback candidate.
DownloadFails_fallback ==
    /\ pc \in {"root_fetch", "dep_fetch"}
    /\ DownloadCall(TRUE)
    /\ tried' = Append(tried, best_match)
    /\ IF Len(candidate) > 0
       THEN /\ best_match' = candidate[Len(candidate)]
            /\ candidate' = SubSeq(candidate, 1, Len(candidate) - 1)
            /\ UNCHANGED <<pc, err>>
       ELSE /\ Fail("DownloadFailed")
            /\ UNCHANGED <<best_match, candidate>>
    /\ UNCHANGED <<World, CACHE_INDEX, index_files, fetched, new_req, dep_pkg_names, root_i, pkg_name,
                   pkg_spec, pkg_extra, resolved>>

\* download_package returned None: the script dies on its next line.
DownloadFails ==
    /\ pc \in {"root_fetch", "dep_fetch"}
    /\ DownloadCall(TRUE)
    /\ tried' = Append(tried, best_match)
    /\ Fail("DownloadFailed")
    /\ UNCHANGED <<World, CACHE_INDEX, index_files, fetched, new_req, dep_pkg_names, root_i, pkg_name,
                   pkg_spec, pkg_extra, best_match, candidate, resolved>>

\* Lines 69-71: the root wheel's requires-python rejects the runtime.
RootReject ==
    /\ pc = "root_fetch"
    /\ ~meta[best_match.name].py_ok
    /\ Downloaded
    /\ Fail("IncompatibleRuntime")
    /\ UNCHANGED <<World, CACHE_INDEX, index_files, fetched, new_req, dep_pkg_names, root_i, pkg_name,
                   pkg_spec, pkg_extra, best_match, candidate, resolved>>

\* What lines 72-95 and 116-139 do with the declarations of best_match.
MergeInto(extras) ==
    LET req_deps == ReqDeps(meta[best_match.name].pkg_deps, extras) IN
    /\ Len(dep_pkg_names) + Len(req_deps) <= MaxWork
    /\ dep_pkg_names' = dep_pkg_names \o DepNames(req_deps)
    /\ new_req' = MergeAll(new_req, req_deps)
    /\ Downloaded
    /\ resolved' = [n \in DOMAIN resolved \cup {pkg_name} |->
                      IF n = pkg_name
                      THEN [artifact |-> best_match, package_version |-> pkg_spec,
                            package_extra |-> pkg_extra]
                      ELSE resolved[n]]

\* Lines 66-96 for a wheel the runtime accepts.
RootMerge ==
    /\ pc = "root_fetch"
    /\ meta[best_match.name].py_ok
    /\ MergeInto(pkg_extra)
    /\ root_i' = root_i + 1
    /\ pc' = "root"
    /\ UNCHANGED <<World, CACHE_INDEX, index_files, fetched, pkg_name, pkg_spec, pkg_extra, best_match,
                   candidate, err>>

\* The selection with the error swallowed: a package nothing satisfies is
\* skipped and the loop goes on.
DepSelect_skip ==
    /\ pc = "dep"
    /\ Len(dep_pkg_names) > 0
    /\ LET name == Head(dep_pkg_names)
           spec == new_req[name].package_version
           sel == get_suitable_package(IndexOf(name), spec, compat_tags)
       IN  /\ dep_pkg_names' = Tail(dep_pkg_names)
           /\ fetched' = fetched
           /\ CACHE_INDEX' = CacheAfter(name)
           /\ index_files' = FilesAfter(name)
           /\ pkg_spec' = spec
           /\ pkg_extra' = new_req[name].package_extra
           /\ Selected(name, sel)
           /\ pc' = IF sel.raised THEN "dep" ELSE "dep_fetch"
           /\ err' = err
    /\ UNCHANGED <<World, new_req, root_i, resolved, wheels, tmp, http, ret>>

\* The selection that reads the head of the worklist and leaves it there.
DepSelect_keep ==
    /\ pc = "dep"
    /\ Len(dep_pkg_names) > 0
    /\ \E o \in FetchOutcomes(Head(dep_pkg_names)) :
       LET name == Head(dep_pkg_names)
           spec == new_req[name].package_version
           sel == get_suitable_package(IndexGot(name, o), spec, compat_tags)
       IN  /\ dep_pkg_names' = dep_pkg_names
           /\ fetched' = o
           /\ CACHE_INDEX' = StoreAfter(name, o).CACHE_INDEX
           /\ index_files' = StoreAfter(name, o).index_files
           /\ pkg_spec' = spec
           /\ pkg_extra' = new_req[name].package_extra
           /\ Selected(name, sel)
           /\ IF ~FetchOk(o) THEN Fail("TransportError")
              ELSE IF IndexFailed(name) THEN Fail("IndexFileError")
              ELSE IF sel.raised THEN Fail("NoSuitablePackage")
              ELSE pc' = "dep_fetch" /\ err' = err
    /\ UNCHANGED <<World, new_req, root_i, resolved, wheels, tmp, http, ret>>

\* Lines 100-105: the head of the worklist is popped and selected.
DepSelect ==
    /\ pc = "dep"
    /\ Len(dep_pkg_names) > 0
    /\ \E o \in FetchOutcomes(Head(dep_pkg_names)) :
       LET name == Head(dep_pkg_names)
           spec == new_req[name].package_version
           sel == get_suitable_package(IndexGot(name, o), spec, compat_tags)
       IN  /\ dep_pkg_names' = Tail(dep_pkg_names)
           /\ fetched' = o
           /\ CACHE_INDEX' = StoreAfter(name, o).CACHE_INDEX
           /\ index_files' = StoreAfter(name, o).index_files
           /\ pkg_spec' = spec
           /\ pkg_extra' = new_req[name].package_extra
           /\ Selected(name, sel)
           /\ IF ~FetchOk(o) THEN Fail("TransportError")
              ELSE IF IndexFailed(name) THEN Fail("IndexFileError")
              ELSE IF sel.raised THEN Fail("NoSuitablePackage")
              ELSE pc' = "dep_fetch" /\ err' = err
    /\ UNCHANGED <<World, new_req, root_i, resolved, wheels, tmp, http, ret>>

\* Line 99: the worklist is empty.
DepDone ==
    /\ pc = "dep"
    /\ Len(dep_pkg_names) = 0
    /\ pc' = "done"
    /\ UNCHANGED <<World, CACHE_INDEX, index_files, fetched, new_req, dep_pkg_names, root_i, pkg_name,
                   pkg_spec, pkg_extra, best_match, candidate, tried, resolved, wheels, tmp, http, ret,
                   err>>

\* The backtracking step with candidate.pop(0).
Backtrack_pop_front ==
    /\ pc = "dep_fetch"
    /\ ~meta[best_match.name].py_ok
    /\ Len(candidate) > 0
    /\ Downloaded
    /\ best_match' = candidate[1]
    /\ candidate' = SubSeq(candidate, 2, Len(candidate))
    /\ UNCHANGED <<World, CACHE_INDEX, index_files, fetched, new_req, dep_pkg_names, root_i, pkg_name,
                   pkg_spec, pkg_extra, resolved, pc, err>>

\* The backtracking step that merges the declarations of the wheel it
\* rejects.
Backtrack_merging ==
    /\ pc = "dep_fetch"
    /\ ~meta[best_match.name].py_ok
    /\ Len(candidate) > 0
    /\ MergeInto(pkg_extra)
    /\ best_match' = candidate[Len(candidate)]
    /\ candidate' = SubSeq(candidate, 1, Len(candidate) - 1)
    /\ UNCHANGED <<World, CACHE_INDEX, index_files, fetched, root_i, pkg_name,
                   pkg_spec, pkg_extra, pc, err>>

\* The pop of a fallback ordering that is the cached list itself: the popped
\* entry leaves CACHE_INDEX too.
Backtrack_popping_cache ==
    /\ pc = "dep_fetch"
    /\ ~meta[best_match.name].py_ok
    /\ Len(candidate) > 0
    /\ Downloaded
    /\ best_match' = candidate[Len(candidate)]
    /\ candidate' = SubSeq(candidate, 1, Len(candidate) - 1)
    /\ CACHE_INDEX' = [n \in DOMAIN CACHE_INDEX |->
                         IF n = pkg_name
                         THEN SelectSeq(CACHE_INDEX[n],
                                        LAMBDA x : x # candidate[Len(candidate)])
                         ELSE CACHE_INDEX[n]]
    /\ UNCHANGED <<World, index_files, fetched, new_req, dep_pkg_names, root_i, pkg_name,
                   pkg_spec, pkg_extra, resolved, pc, err>>

\* Lines 110-114 with a fallback left: candidate.pop(-1).
Backtrack ==
    /\ pc = "dep_fetch"
    /\ ~meta[best_match.name].py_ok
    /\ Len(candidate) > 0
    /\ Downloaded
    /\ best_match' = candidate[Len(candidate)]
    /\ candidate' = SubSeq(candidate, 1, Len(candidate) - 1)
    /\ UNCHANGED <<World, CACHE_INDEX, index_files, fetched, new_req, dep_pkg_names, root_i, pkg_name,
                   pkg_spec, pkg_extra, resolved, pc, err>>

\* The exhausted backtracking that keeps the last rejected wheel.
BacktrackExhausted_accept ==
    /\ pc = "dep_fetch"
    /\ ~meta[best_match.name].py_ok
    /\ Len(candidate) = 0
    /\ MergeInto(pkg_extra)
    /\ pc' = "dep"
    /\ UNCHANGED <<World, CACHE_INDEX, index_files, fetched, root_i, pkg_name, pkg_spec, pkg_extra,
                   best_match, candidate, err>>

\* Line 113 on an empty list: IndexError.
BacktrackExhausted ==
    /\ pc = "dep_fetch"
    /\ ~meta[best_match.name].py_ok
    /\ Len(candidate) = 0
    /\ Downloaded
    /\ Fail("IndexError")
    /\ UNCHANGED <<World, CACHE_INDEX, index_files, fetched, new_req, dep_pkg_names, root_i, pkg_name,
                   pkg_spec, pkg_extra, best_match, candidate, resolved>>

\* Lines 116-141 for a wheel the runtime accepts.
DepMerge ==
    /\ pc = "dep_fetch"
    /\ meta[best_match.name].py_ok
    /\ MergeInto(pkg_extra)
    /\ pc' = "dep"
    /\ UNCHANGED <<World, CACHE_INDEX, index_files, fetched, root_i, pkg_name, pkg_spec, pkg_extra,
                   best_match, candidate, err>>

Next ==
    \/ RootSelect
    \/ RootDone
    \/ DownloadFails
    \/ RootReject
    \/ RootMerge
    \/ DepSelect
    \/ DepDone
    \/ Backtrack
    \/ BacktrackExhausted
    \/ DepMerge

Spec == Init /\ [][Next]_vars

\* The script runs on until it ends or dies.
FairSpec == Spec /\ WF_vars(Next)

-----------------------------------------------------------------------------
\* get_wheel_index followed by get_suitable_package on swept inputs: every
\* listing of at most MaxIdx artifacts and every constraint of one clause.

SweepVersions == {Ver(r, p) : r \in 1..MaxRel, p \in PreKinds}

SweepTags == {None, Cp311, {"py2-none-any", "py3-none-any"}}

\* A parsed listing: sdists carry no tags, wheels carry theirs.
SweepEntry(i, v, t) ==
    IF t = None THEN Sdist(ToString(i), v) ELSE Whl(ToString(i), v, t)

\* The listing of length n whose i-th artifact is f[i] = <<version, tags>>.
SweepListing(n, f) == [i \in 1..n |-> SweepEntry(i, f[i][1], f[i][2])]

\* The constraint "<2.0.0" of the end-to-end example.
ExampleSpec == {Clause("<", Final(3))}

SweepSpecs == {{}} \cup {{Clause(o, v)} : o \in Ops, v \in SweepVersions}
                   \cup {ExampleSpec}

SelInit ==
    /\ \/ \E n \in 0..MaxIdx : \E f \in [1..n -> SweepVersions \X SweepTags] :
             remote = [pkg |-> SweepListing(n, f)]
       \/ \E l \in {Listings.numpy, TorchListing, TieListing} :
             remote = [pkg |-> l]
    /\ meta = EmptyMap
    /\ req = <<>>
    /\ CACHE_INDEX = EmptyMap
    /\ index_files = EmptyMap
    /\ fetched = <<>>
    /\ page = EmptyMap
    /\ requires_dist = EmptyMap
    /\ new_req = EmptyMap
    /\ dep_pkg_names = <<>>
    /\ root_i = 1
    /\ pkg_name = "pkg"
    /\ pkg_spec = {}
    /\ pkg_extra = {}
    /\ best_match = NoEntry
    /\ candidate = <<>>
    /\ tried = <<>>
    /\ resolved = EmptyMap
    /\ wheels = EmptyMap
    /\ tmp = EmptyMap
    /\ http = <<>>
    /\ ret = ""
    /\ pc = "index"
    /\ err = "none"

\* pkg_index = get_wheel_index(pkg_name)
SelGetWheelIndex ==
    /\ pc = "index"
    /\ \E o \in FetchOutcomes(pkg_name) :
         /\ fetched' = o
         /\ CACHE_INDEX' = StoreAfter(pkg_name, o).CACHE_INDEX
         /\ index_files' = StoreAfter(pkg_name, o).index_files
         /\ IF ~FetchOk(o) THEN Fail("TransportError")
            ELSE IF IndexFailed(pkg_name) THEN Fail("IndexFileError")
            ELSE pc' = "select" /\ err' = err
    /\ UNCHANGED <<World, new_req, dep_pkg_names, root_i, pkg_name, pkg_spec,
                   pkg_extra, best_match, candidate, tried, resolved, wheels, tmp,
                   http, ret>>

\* best_match, candidate = get_suitable_package(pkg_name, pkg_index, spec, compat_tags)
SelGetSuitablePackage ==
    /\ pc = "select"
    /\ \E spec \in SweepSpecs :
         LET sel == get_suitable_package(IndexOf(pkg_name), spec, compat_tags) IN
         /\ pkg_spec' = spec
         /\ best_match' = sel.best
         /\ candidate' = sel.candidate
         /\ IF sel.raised THEN pc' = "raised" /\ err' = "NoSuitablePackage"
            ELSE pc' = "returned" /\ err' = err
    /\ UNCHANGED <<World, CACHE_INDEX, index_files, fetched, new_req, dep_pkg_names, root_i, pkg_name,
                   pkg_extra, tried, resolved, wheels, tmp, http, ret>>

SelNext ==
    \/ SelGetWheelIndex
    \/ SelGetSuitablePackage

SpecSel == SelInit /\ [][SelNext]_vars

\* The same two calls in a directory where an earlier run may have left the
\* file index/pkg.json: none, one json.load cannot parse, the one written for
\* the present listing, or the one written for an older listing.
IdxInit ==
    /\ pkg_name \in {"pkg", "torch"}
    /\ \/ /\ pkg_name = "pkg"
          /\ \E n \in 0..1 : \E f \in [1..n -> SweepVersions \X SweepTags] :
                remote = [pkg |-> SweepListing(n, f)]
       \/ \E l \in {Listings.numpy, TorchListing, TieListing} :
             remote = [n \in {pkg_name} |-> l]
    /\ \/ index_files = EmptyMap
       \/ \E file \in {CorruptFile, IndexFileOf(FetchedIndex(remote[pkg_name])),
                        IndexFileOf(FetchedIndex(Listings.C))} :
             index_files = [n \in {pkg_name} |-> file]
    /\ fetched = <<>>
    /\ page = EmptyMap
    /\ requires_dist = EmptyMap
    /\ meta = EmptyMap
    /\ req = <<>>
    /\ CACHE_INDEX = EmptyMap
    /\ new_req = EmptyMap
    /\ dep_pkg_names = <<>>
    /\ root_i = 1
    /\ pkg_spec = {}
    /\ pkg_extra = {}
    /\ best_match = NoEntry
    /\ candidate = <<>>
    /\ tried = <<>>
    /\ resolved = EmptyMap
    /\ wheels = EmptyMap
    /\ tmp = EmptyMap
    /\ http = <<>>
    /\ ret = ""
    /\ pc = "index"
    /\ err = "none"

SpecIdx == IdxInit /\ [][SelNext]_vars

-----------------------------------------------------------------------------
\* get_wheel_index on index pages as they are served: every page of at most
\* MaxLinks links, asked again in the same run and in a later run.

MaxLinks == 2

Foo == Written(<<"foo">>, "-", FALSE)

FooBar(sep) == Written(<<"foo", "bar">>, sep, FALSE)

ScikitLearn(sep) == Written(<<"scikit", "learn">>, sep, FALSE)

Seg311 == Segment({"cp311"}, {"cp311"}, {"manylinux_x86_64"})

SegAny == Segment({"py2", "py3"}, {"none"}, {"any"})

NoSegment == <<>>

\* The file names of the pages: wheels, sdists and other files of foo, of
\* foo-bar and of scikit-learn, with versions and tag segments that parse
\* and that do not.
FileNames ==
    {FileName(Foo, VersionStr(Final(1)), Seg311, "whl"),
     FileName(lower(Foo), VersionStr(Ver(2, "rc")), SegAny, "whl"),
     FileName(Written(<<"foo">>, "-", TRUE), VersionStr(Final(2)), SegAny, "whl"),
     FileName(Foo, VersionStr(LocalVer(1, "cu118")), Seg311, "whl"),
     FileName(Foo, BadVersion, Seg311, "whl"),
     FileName(Foo, VersionStr(Final(1)), BadSegment, "whl"),
     FileName(Foo, VersionStr(Final(1)), NoSegment, "tar.gz"),
     FileName(Written(<<"foo">>, "-", TRUE), BadVersion, NoSegment, "tar.gz"),
     FileName(Foo, VersionStr(Final(1)), NoSegment, "zip"),
     FileName(ScikitLearn("_"), VersionStr(Final(1)), Seg311, "whl"),
     FileName(ScikitLearn("-"), VersionStr(Final(1)), NoSegment, "tar.gz"),
     FileName(ScikitLearn("_"), VersionStr(Final(2)), NoSegment, "tar.gz"),
     FileName(FooBar("-"), VersionStr(Final(1)), NoSegment, "tar.gz"),
     FileName(FooBar("_"), VersionStr(Final(2)), NoSegment, "tar.gz"),
     FileName(FooBar("_"), VersionStr(Final(1)), SegAny, "whl")}

\* The names asked for.
PaNames == {"foo", "scikit-learn", "Scikit_Learn"}

\* The i-th link of a page: its text and its href.
Link(i, file_name) == [name |-> file_name, url |-> i]

PageInit ==
    /\ pkg_name \in PaNames
    /\ \E n \in 0..MaxLinks : \E f \in [1..n -> FileNames] :
          page = [p \in {pkg_name} |-> [i \in 1..n |-> Link(i, f[i])]]
    /\ remote = EmptyMap
    /\ requires_dist = EmptyMap
    /\ meta = EmptyMap
    /\ req = <<>>
    /\ CACHE_INDEX = EmptyMap
    /\ index_files = EmptyMap
    /\ fetched = <<>>
    /\ new_req = EmptyMap
    /\ dep_pkg_names = <<>>
    /\ root_i = 1
    /\ pkg_spec = {}
    /\ pkg_extra = {}
    /\ best_match = NoEntry
    /\ candidate = <<>>
    /\ tried = <<>>
    /\ resolved = EmptyMap
    /\ wheels = EmptyMap
    /\ tmp = EmptyMap
    /\ http = <<>>
    /\ ret = ""
    /\ pc = "index"
    /\ err = "none"

\* The run asks for the index of the same name again (main.py, line 103).
PageCallAgain ==
    /\ pc = "select"
    /\ pc' = "index"
    /\ UNCHANGED <<World, CACHE_INDEX, index_files, fetched, new_req, dep_pkg_names,
                   root_i, pkg_name, pkg_spec, pkg_extra, best_match, candidate,
                   tried, resolved, wheels, tmp, http, ret, err>>

\* The run ends and a later one starts: CACHE_INDEX is empty again (line 19),
\* the index directory is as the earlier run left it.
PageNewRun ==
    /\ pc = "select"
    /\ CACHE_INDEX # EmptyMap
    /\ CACHE_INDEX' = EmptyMap
    /\ pc' = "index"
    /\ UNCHANGED <<World, index_files, fetched, new_req, dep_pkg_names,
                   root_i, pkg_name, pkg_spec, pkg_extra, best_match, candidate,
                   tried, resolved, wheels, tmp, http, ret, err>>

PageNext ==
    \/ SelGetWheelIndex
    \/ PageCallAgain
    \/ PageNewRun

SpecPage == PageInit /\ [][PageNext]_vars

-----------------------------------------------------------------------------
\* check_package_dependency on swept declarations: one declaration of the
\* wheel "pkg.whl" with up to MaxMarkers markers, and the requested extras.

SweepMarkers == {ExtraIs("x"), ExtraIs("y"), EnvIs("sys_platform", "linux"),
                 EnvIs("sys_platform", "win32")}

SweepExtras == SUBSET {"x", "y"}

MarkInit ==
    /\ \E n \in 0..MaxMarkers : \E m \in [1..n -> SweepMarkers] :
          meta = [w \in {"pkg.whl"} |->
                    [py_ok |-> TRUE, pkg_deps |-> <<Decl("dep", {}, {}, m)>>]]
    /\ pkg_extra \in SweepExtras
    /\ remote = EmptyMap
    /\ req = <<>>
    /\ CACHE_INDEX = EmptyMap
    /\ index_files = EmptyMap
    /\ fetched = <<>>
    /\ page = EmptyMap
    /\ requires_dist = EmptyMap
    /\ new_req = EmptyMap
    /\ dep_pkg_names = <<>>
    /\ root_i = 1
    /\ pkg_name = "pkg"
    /\ pkg_spec = {}
    /\ best_match = NoEntry
    /\ candidate = <<>>
    /\ tried = <<>>
    /\ resolved = EmptyMap
    /\ wheels = EmptyMap
    /\ tmp = EmptyMap
    /\ http = <<>>
    /\ ret = ""
    /\ pc = "check"
    /\ err = "none"

\* check_package_dependency(pkg_dep, extra) for the declaration of pkg.whl.
MarkCheck ==
    /\ pc = "check"
    /\ pc' = IF check_package_dependency(meta["pkg.whl"].pkg_deps[1], pkg_extra)
             THEN "active" ELSE "inactive"
    /\ UNCHANGED <<World, CACHE_INDEX, index_files, fetched, new_req, dep_pkg_names, root_i, pkg_name,
                   pkg_spec, pkg_extra, best_match, candidate, tried, resolved,
                   wheels, tmp, http, ret, err>>

MarkNext == MarkCheck

SpecMark == MarkInit /\ [][MarkNext]_vars

-----------------------------------------------------------------------------
\* parse_wheels_dependency (src/src/wheel_parse.py) on the Requires-Dist
\* entries of one wheel, as they are written in its metadata.

MaxEntries == 2

\* An entry "<name>[<extras>] <constraints>; <marker>; ...": the name is ""
\* where the text before the first ";" is empty or starts with no name.
Entry(n, e, c, m) == [package_name |-> n, package_extra |-> e,
                      constraints |-> c, markers |-> m]

\* A constraint whose version is no version, as in ">dev".
BadClause == Clause(">", [rel |-> 0, pre |-> "word", local |-> ""])

\* SpecifierSet(constraints_str) raises InvalidSpecifier (line 54).
InvalidSpecifier(c) == \E cl \in c : cl.ver.pre \notin PreKinds

\* Text that is no marker expression.
BadMarker == [var |-> "", val |-> ""]

\* Marker(s) raises InvalidMarker (line 86).
InvalidMarker(m) == m.var = ""

\* parse_package_version_str of lines 10-59 on the text before the first ";":
\* ValueError for an empty text (line 20) and for a text without a name
\* (line 33), InvalidSpecifier for the constraints.
parse_package_version_str(dep) ==
    IF dep.package_name = "" \/ InvalidSpecifier(dep.constraints)
    THEN [raised |-> TRUE, package_name |-> "", extra |-> {}, ver_spec |-> {}]
    ELSE [raised |-> FALSE, package_name |-> dep.package_name,
          extra |-> dep.package_extra, ver_spec |-> dep.constraints]

\* The loop body of lines 72-88 for one entry.
parse_result(dep) ==
    LET first == parse_package_version_str(dep) IN
    IF first.raised \/ \E i \in 1..Len(dep.markers) : InvalidMarker(dep.markers[i])
    THEN [raised |-> TRUE, decl |-> Decl("", {}, {}, <<>>)]
    ELSE [raised |-> FALSE,
          decl |-> Decl(first.package_name, first.extra, first.ver_spec,
                        dep.markers)]

\* Lines 62-90: nothing catches what the loop body raises.
parse_wheels_dependency(deps_str) ==
    IF \E i \in 1..Len(deps_str) : parse_result(deps_str[i]).raised
    THEN [raised |-> TRUE, pkg_deps |-> <<>>]
    ELSE [raised |-> FALSE,
          pkg_deps |-> [i \in 1..Len(deps_str) |-> parse_result(deps_str[i]).decl]]

\* The entries of the parser runs: with and without a name, with constraints
\* and markers that parse and that do not.
Entries ==
    {Entry(n, {}, c, m) :
        n \in {"A", "B", ""},
        c \in {{}, {Clause(">=", Final(1))}, {BadClause}},
        m \in {<<>>, <<ExtraIs("x")>>, <<BadMarker>>}}

MetaInit ==
    /\ \E n \in 0..MaxEntries : \E f \in [1..n -> Entries] :
          requires_dist = [w \in {"pkg.whl"} |-> f]
    /\ best_match = Whl("pkg.whl", Final(1), PyAny)
    /\ meta = EmptyMap
    /\ page = EmptyMap
    /\ remote = EmptyMap
    /\ req = <<>>
    /\ CACHE_INDEX = EmptyMap
    /\ index_files = EmptyMap
    /\ fetched = <<>>
    /\ new_req = EmptyMap
    /\ dep_pkg_names = <<>>
    /\ root_i = 1
    /\ pkg_name = "pkg"
    /\ pkg_spec = {}
    /\ pkg_extra = {}
    /\ candidate = <<>>
    /\ tried = <<>>
    /\ resolved = EmptyMap
    /\ wheels = EmptyMap
    /\ tmp = EmptyMap
    /\ http = <<>>
    /\ ret = ""
    /\ pc = "parse"
    /\ err = "none"

\* py_dep, pkg_deps = parse_wheels_dependency(pkg_path) (main.py, line 109):
\* what it raises ends the script.
MetaParse ==
    /\ pc = "parse"
    /\ LET r == parse_wheels_dependency(requires_dist[best_match.name]) IN
       IF r.raised
       THEN Fail("MetadataError") /\ meta' = meta
       ELSE /\ meta' = [w \in {best_match.name} |->
                          [py_ok |-> TRUE, pkg_deps |-> r.pkg_deps]]
            /\ pc' = "parsed"
            /\ err' = err
    /\ UNCHANGED <<remote, req, page, requires_dist, CACHE_INDEX, index_files,
                   fetched, new_req, dep_pkg_names, root_i, pkg_name, pkg_spec,
                   pkg_extra, best_match, candidate, tried, resolved, wheels, tmp,
                   http, ret>>

MetaNext == MetaParse

SpecMeta == MetaInit /\ [][MetaNext]_vars

-----------------------------------------------------------------------------
\* download_package called up to MaxCalls times for one artifact, each
\* request answered by some response of the server.

DlInit ==
    /\ best_match = Whl("pkg.whl", Final(1), PyAny)
    /\ wheels = EmptyMap
    /\ tmp = EmptyMap
    /\ http = <<>>
    /\ ret = ""
    /\ remote = [pkg |-> <<best_match>>]
    /\ meta = EmptyMap
    /\ req = <<>>
    /\ CACHE_INDEX = EmptyMap
    /\ index_files = EmptyMap
    /\ fetched = <<>>
    /\ page = EmptyMap
    /\ requires_dist = EmptyMap
    /\ new_req = EmptyMap
    /\ dep_pkg_names = <<>>
    /\ root_i = 1
    /\ pkg_name = "pkg"
    /\ pkg_spec = {}
    /\ pkg_extra = {}
    /\ candidate = <<>>
    /\ tried = <<>>
    /\ resolved = EmptyMap
    /\ pc = "download"
    /\ err = "none"

\* download_package(best_match)
DlCall ==
    /\ pc = "download"
    /\ Len(tried) < MaxCalls
    /\ \E failed \in BOOLEAN : DownloadCall(failed)
    /\ tried' = Append(tried, best_match)
    /\ UNCHANGED <<World, CACHE_INDEX, index_files, fetched, new_req, dep_pkg_names, root_i, pkg_name,
                   pkg_spec, pkg_extra, best_match, candidate, resolved, pc, err>>

DlNext == DlCall

SpecDl == DlInit /\ [][DlNext]_vars

-----------------------------------------------------------------------------
\* Notions the properties are stated in.

\* The versions the properties quantify over: the final releases.
ReleaseVersions == {Final(r) : r \in 0..MaxCheckRel}

Installable(x) == x.tags # None /\ x.tags \cap Range(compat_tags) # {}

\* An artifact the selector may return for the constraint c.
Eligible(x, c) ==
    /\ x.extension = "whl"
    /\ Installable(x)
    /\ x.package_version.pre = "final"
    /\ Contains(c, x.package_version)

Returned == {best_match} \cup Range(candidate)

\* The constraint pins a pre-release or dev version exactly.
PinsPre(c) == \E s \in c : s.op = "==" /\ s.ver.pre # "final"

Reverse(s) == [i \in 1..Len(s) |-> s[Len(s) + 1 - i]]

Ascending(s) ==
    \A i, j \in 1..Len(s) : i < j => VerLe(s[i].package_version, s[j].package_version)

-----------------------------------------------------------------------------
\* C1: on an index whose wheels are all installable, the best match is the
\* wheel of the highest version among the final-release wheels whose version
\* the constraint accepts, and selection fails only if there is none.
C1_BestIsHighest ==
    (pc \in {"returned", "raised"}
        /\ \A x \in Range(remote.pkg) : x.extension = "whl" => Installable(x))
    => LET S == {x \in Range(remote.pkg) :
                    /\ x.extension = "whl"
                    /\ x.package_version.pre = "final"
                    /\ Contains(pkg_spec, x.package_version)}
       IN  IF S = {} THEN pc = "raised"
           ELSE /\ pc = "returned"
                /\ best_match \in S
                /\ \A x \in S : VerLe(x.package_version, best_match.package_version)

\* The end-to-end example: <2.0.0 over 1.24.0, 1.26.4, 2.0.1 gives 1.26.4.
C1_Witness ==
    /\ pc = "returned"
    /\ remote.pkg = Listings.numpy
    /\ pkg_spec = ExampleSpec
    /\ best_match.name = "numpy-1.26.4.whl"

\* C7: under a constraint that pins no pre-release or dev version exactly,
\* neither the best match nor any fallback is a pre-release or dev release.
C7_NoPreRelease ==
    (pc = "returned" /\ ~PinsPre(pkg_spec))
    => \A x \in Returned : ~is_prerelease(x.package_version)
                           /\ ~is_devrelease(x.package_version)

\* An installable dev wheel that the clauses of the constraint accept is in
\* the index, above the final release that is returned.
C7_Witness ==
    /\ pc = "returned"
    /\ ~PinsPre(pkg_spec)
    /\ pkg_spec # {}
    /\ \E x \in Range(remote.pkg) :
          /\ x.extension = "whl" /\ Installable(x)
          /\ x.package_version.pre = "dev"
          /\ Contains(pkg_spec, x.package_version)
          /\ VerLt(best_match.package_version, x.package_version)

\* C8: when the constraint pins a pre-release exactly and the index holds an
\* installable wheel of that version, that wheel is the best match.
C8_PinnedPreReleaseReturned ==
    \A x \in Range(remote.pkg) :
        (/\ pc \in {"returned", "raised"}
         /\ x.extension = "whl" /\ Installable(x)
         /\ is_prerelease(x.package_version)
         /\ pkg_spec = {Clause("==", x.package_version)})
        => /\ pc = "returned"
           /\ best_match.package_version = x.package_version

\* C9: every returned artifact carries a tag of the compatibility list, and
\* an index whose wheels all miss the list makes the selection fail.
C9_TagsIntersect ==
    /\ pc = "returned" => \A x \in Returned : Installable(x)
    /\ (pc \in {"returned", "raised"}
          /\ \A x \in Range(remote.pkg) : x.extension = "whl" => ~Installable(x))
       => pc = "raised" /\ err = "NoSuitablePackage"

\* Only cp311 wheels, one of them a final release the constraint accepts.
C9_Witness ==
    /\ pc = "raised"
    /\ err = "NoSuitablePackage"
    /\ \E x \in Range(remote.pkg) :
          /\ x.tags = Cp311
          /\ x.package_version.pre = "final"
          /\ Contains(pkg_spec, x.package_version)
    /\ \A x \in Range(remote.pkg) : x.extension = "whl" => x.tags = Cp311

-----------------------------------------------------------------------------
\* The driver.

PyOk(x) == meta[x.name].py_ok

\* The declarations merged by the step that leaves a fetch position.
ActiveDecls ==
    LET ds == meta[best_match.name].pkg_deps IN
    {ds[i] : i \in {j \in 1..Len(ds) : check_package_dependency(ds[j], pkg_extra)}}

MergeStep == pc \in {"root_fetch", "dep_fetch"} /\ pc' \in {"root", "dep"}

Accepts(r, v) == Contains(r.package_version, v)

\* The worklist bound stops no merge of the worlds above.
WorkBoundIdle ==
    (pc \in {"root_fetch", "dep_fetch"} /\ PyOk(best_match))
    => Len(dep_pkg_names)
         + Len(ReqDeps(meta[best_match.name].pkg_deps, pkg_extra)) <= MaxWork

\* C2: for a dependency requirement, the candidate being tried, the ones
\* tried before it and the fallbacks left are, in this order from the end,
\* the eligible entries of the index in ascending version order: the tried
\* versions never increase and no artifact is tried twice; a rejected wheel
\* is followed by the candidate popped from the end of the fallback ordering.
C2_BacktrackOrder ==
    /\ [](pc = "dep_fetch" =>
            LET all == candidate \o <<best_match>> \o Reverse(tried) IN
            /\ Ascending(all)
            /\ Cardinality(Range(all)) = Len(all)
            /\ Range(all) = {x \in Range(remote[pkg_name]) : Eligible(x, pkg_spec)})
    /\ [][(pc = "dep_fetch" /\ ~PyOk(best_match) /\ pc' = "dep_fetch")
            => /\ Len(candidate) > 0
               /\ best_match' = candidate[Len(candidate)]
               /\ candidate' = SubSeq(candidate, 1, Len(candidate) - 1)
               /\ tried' = Append(tried, best_match)]_vars

\* The third candidate of a requirement is being tried, two having been rejected.
C2_Witness ==
    /\ pc = "dep_fetch"
    /\ Len(tried) = 2
    /\ VerLt(tried[2].package_version, tried[1].package_version)
    /\ VerLt(best_match.package_version, tried[2].package_version)

\* C3: a run that reaches Done has resolved every requirement to a wheel
\* whose requires-python accepts the runtime; once the candidate in hand and
\* all fallbacks left are rejected ones, the run ends in failure.
C3_AllRejectedFails ==
    /\ [](pc = "done" =>
            \A n \in DOMAIN new_req :
                n \in DOMAIN resolved /\ PyOk(resolved[n].artifact))
    /\ ((pc \in {"root_fetch", "dep_fetch"} /\ \A x \in Returned : ~PyOk(x))
          ~> (pc = "failed"))

\* Every eligible candidate of a requirement was tried and rejected.
C3_Witness ==
    /\ pc = "failed"
    /\ err = "IndexError"
    /\ Len(tried) = 3
    /\ \A x \in Range(remote[pkg_name]) : Eligible(x, pkg_spec) => ~PyOk(x)

\* C4: a merge step gives every declared package name n the intersection of
\* its old constraint (if any) with the constraints of the active
\* declarations naming n and the union of the extras; a new name is on the
\* worklist afterwards.
C4_Merge ==
    [][MergeStep =>
        \A n \in DOMAIN remote :
            LET D == {d \in ActiveDecls : d.package_name = n} IN
            D # {} =>
              /\ n \in DOMAIN new_req'
              /\ new_req'[n].package_extra =
                    (IF n \in DOMAIN new_req THEN new_req[n].package_extra ELSE {})
                    \cup UNION {d.package_extra : d \in D}
              /\ \A v \in ReleaseVersions :
                    Accepts(new_req'[n], v)
                    <=> /\ n \in DOMAIN new_req => Accepts(new_req[n], v)
                        /\ \A d \in D : Contains(d.package_version, v)
              /\ n \notin DOMAIN new_req =>
                    \E i \in Len(dep_pkg_names) + 1 .. Len(dep_pkg_names') :
                        dep_pkg_names'[i] = n]_vars

\* A requirement that was merged into: two clauses and an extra, with a
\* release each clause alone accepts and their conjunction rejects.
C4_Witness ==
    /\ pc = "dep"
    /\ \E n \in DOMAIN new_req :
          /\ new_req[n].package_extra # {}
          /\ \E a, b \in new_req[n].package_version : \E v, w \in ReleaseVersions :
                /\ a # b
                /\ SpecifierContains(a, v) /\ ~SpecifierContains(b, v)
                /\ SpecifierContains(b, w) /\ ~SpecifierContains(a, w)
                /\ ~Accepts(new_req[n], v) /\ ~Accepts(new_req[n], w)

\* C5: no step removes a requirement, shrinks its extras or lets its
\* constraint accept a version it rejected before.
C5_Monotonic ==
    [][\A n \in DOMAIN new_req :
          /\ n \in DOMAIN new_req'
          /\ new_req[n].package_extra \subseteq new_req'[n].package_extra
          /\ \A v \in ReleaseVersions :
                Accepts(new_req'[n], v) => Accepts(new_req[n], v)]_vars

\* A root requirement was narrowed and given an extra by a merge.
C5_Witness ==
    \E n \in DOMAIN InitialReq(req) :
        /\ n \in DOMAIN new_req
        /\ new_req[n].package_extra # InitialReq(req)[n].package_extra
        /\ \E v \in ReleaseVersions :
              Accepts(InitialReq(req)[n], v) /\ ~Accepts(new_req[n], v)

\* C6: the driver terminates, on cyclic dependency graphs too.
C6_Terminates == <>(pc \in {"done", "failed"})

\* C10: when no entry of the index survives the filters, the step that
\* selects on the index it was served ends the run with the
\* no-suitable-package error, merging and downloading nothing; a failed run
\* takes no further step.
C10_NoSuitableAborts ==
    /\ [][(/\ FetchOk(fetched')
           /\ \/ /\ pc = "dep" /\ Len(dep_pkg_names) > 0
                 /\ \A x \in Range(remote[Head(dep_pkg_names)]) :
                       ~Eligible(x, new_req[Head(dep_pkg_names)].package_version)
              \/ /\ pc = "root" /\ root_i <= Len(req)
                 /\ \A x \in Range(remote[req[root_i].package_name]) :
                       ~Eligible(x, ver_spec))
          => /\ pc' = "failed"
             /\ err' = "NoSuitablePackage"
             /\ UNCHANGED <<new_req, resolved, wheels>>]_vars
    /\ [][pc # "failed"]_vars

\* The run died on a requirement nothing satisfies, with work left.
C10_Witness ==
    /\ pc = "failed"
    /\ err = "NoSuitablePackage"
    /\ Len(dep_pkg_names) > 0
    /\ pkg_name \in DOMAIN new_req

\* C11: every root requirement is selected with its own version constraint.
C11_RootOwnConstraint ==
    pc = "root_fetch" => pkg_spec = new_req[pkg_name].package_version

\* C12: in the root loop as in the dependency loop, a wheel whose
\* requires-python rejects the runtime is followed by the next fallback, and
\* the run fails on it only when no fallback is left.
C12_RejectBacktracks ==
    [][(/\ pc \in {"root_fetch", "dep_fetch"}
        /\ ~PyOk(best_match)
        /\ best_match.name \in DOMAIN wheels')
       => IF Len(candidate) > 0
          THEN pc' = pc /\ best_match' = candidate[Len(candidate)]
          ELSE pc' = "failed"]_vars

\* The markers of the declaration handed to check_package_dependency.
CheckedMarkers == meta["pkg.whl"].pkg_deps[1].package_markers

\* Marker i of the checked declaration holds under the extra e.
MarkerHolds(i, e) ==
    IF CheckedMarkers[i].var = "extra" THEN CheckedMarkers[i].val = e
    ELSE py_env[CheckedMarkers[i].var] = CheckedMarkers[i].val

\* C13: a declaration is active iff each of its markers holds for at least one
\* requested extra; without requested extras the markers are evaluated once
\* with the extra ""; a declaration without markers is active.
C13_ActiveIff ==
    pc \in {"active", "inactive"} =>
        /\ Len(CheckedMarkers) = 0 => pc = "active"
        /\ pkg_extra = {} =>
             (pc = "active" <=> \A i \in 1..Len(CheckedMarkers) : MarkerHolds(i, ""))
        /\ pkg_extra # {} =>
             (pc = "active" <=> \A i \in 1..Len(CheckedMarkers) :
                                   \E e \in pkg_extra : MarkerHolds(i, e))

\* Two markers, each satisfied by a different requested extra.
C13_Witness ==
    /\ pc = "active"
    /\ pkg_extra = {"x", "y"}
    /\ CheckedMarkers = <<ExtraIs("x"), ExtraIs("y")>>

\* The variant track of an artifact: the local label of its version.
Track(x) == x.package_version.local

\* The best matches a selection hands back.
BestMatches == {best_match}

\* C14: over an index that holds variant tracks, the selection under a pinned
\* version (==2.5.1) returns a best match for every track that has an
\* eligible wheel.
C14_BestPerTrack ==
    (pc = "returned" /\ \E c \in pkg_spec : c.op = "==") =>
        \A x \in Range(remote.pkg) :
            (Track(x) \in Locals /\ Eligible(x, pkg_spec))
                => \E b \in BestMatches : Track(b) = Track(x)

\* The position of the most specific tag of a wheel in the compatibility list.
TagPosition(x) ==
    CHOOSE i \in 1..Len(compat_tags) :
        /\ compat_tags[i] \in x.tags
        /\ \A j \in 1..(i - 1) : compat_tags[j] \notin x.tags

\* C15: among the eligible wheels of the best match's version, the best match
\* carries the most specific tag; no eligible wheel has a higher version.
C15_MostSpecificTag ==
    pc = "returned" =>
        \A x \in Range(remote.pkg) :
            Eligible(x, pkg_spec) =>
                /\ VerLe(x.package_version, best_match.package_version)
                /\ x.package_version = best_match.package_version
                     => TagPosition(best_match) <= TagPosition(x)

\* A step that holds one call download_package(best_match).
DownloadCalled == tried' = Append(tried, best_match)

\* C16: a call that finds wheels/<name> returns that path, sends no request
\* and changes neither the target nor the temp file.
C16_Idempotent ==
    [][(DownloadCalled /\ best_match.name \in DOMAIN wheels)
       => /\ ret' = best_match.name
          /\ http' = http
          /\ wheels' = wheels
          /\ tmp' = tmp]_vars

\* The call repeated after a successful download: two calls, one request.
C16_Witness ==
    /\ pc = "download"
    /\ Len(tried) = 2
    /\ Len(http) = 1
    /\ ret = "pkg.whl"
    /\ "pkg.whl" \in DOMAIN wheels

\* C17: a call that fails returns None, leaves the target absent and the
\* received bytes appended to the temp file; the target appears only in a call
\* whose transfer ran to completion.
C17_TargetOnlyWhenComplete ==
    [][DownloadCalled =>
        LET n == best_match.name IN
        /\ ret' = ReturnedNone =>
             /\ n \notin DOMAIN wheels'
             /\ wheels' = wheels
             /\ Len(http') = Len(http) + 1
             /\ LET r == http'[Len(http')].response IN
                Bytes(tmp', n) = Bytes(tmp, n) \o SubSeq(r.body, 1, r.received)
        /\ (n \in DOMAIN wheels' /\ n \notin DOMAIN wheels) =>
             /\ ret' = n
             /\ Len(http') = Len(http) + 1
             /\ LET r == http'[Len(http')].response IN
                r.status \in {200, 206} /\ r.received = Len(r.body)]_vars

\* A call failed in the middle of the body: None, no target, a partial copy.
C17_Witness ==
    /\ pc = "download"
    /\ ret = ReturnedNone
    /\ wheels = EmptyMap
    /\ Len(Bytes(tmp, "pkg.whl")) > 0
    /\ http[Len(http)].response.received < Len(http[Len(http)].response.body)

\* C18: a call that finds a partial temp copy of n > 0 bytes asks for the
\* bytes from offset n on, and when it succeeds the file moved into place is
\* the complete remote artifact.
C18_ResumeYieldsArtifact ==
    [][(/\ DownloadCalled
        /\ best_match.name \notin DOMAIN wheels
        /\ Len(Bytes(tmp, best_match.name)) > 0)
       => /\ Len(http') = Len(http) + 1
          /\ http'[Len(http')].request.ranged
          /\ http'[Len(http')].request.from = Len(Bytes(tmp, best_match.name))
          /\ ret' = best_match.name => wheels'[best_match.name] = RemoteBytes]_vars

\* C19: when download_package returns None the run ends in failure: the
\* selection, the fallbacks, the requirement map and the worklist are left as
\* they are, and nothing happens after the failure.
C19_FailedDownloadEndsRun ==
    [][/\ (DownloadCalled /\ ret' = ReturnedNone) =>
            /\ pc' = "failed"
            /\ UNCHANGED <<best_match, candidate, new_req, dep_pkg_names,
                           root_i, resolved>>
       /\ (pc = "failed" /\ err = "DownloadFailed") => UNCHANGED vars]_vars

\* A download failed while a fallback and further requirements were left.
C19_Witness ==
    /\ pc = "failed"
    /\ err = "DownloadFailed"
    /\ ret = ReturnedNone
    /\ Len(candidate) > 0
    /\ Len(dep_pkg_names) > 0

\* C20: a call of get_wheel_index that finds no index file, or one that
\* cannot be read, does not fail: when the pages it requests are served, it
\* fetches the listing and returns (and caches) the index built from it.
C20_ToleratesBadIndexFile ==
    [][(/\ pc = "index"
        /\ pc' # pc
        /\ pkg_name \notin DOMAIN CACHE_INDEX
        /\ FetchOk(fetched')
        /\ \/ pkg_name \notin DOMAIN index_files
           \/ ~index_files[pkg_name].valid)
       => /\ pc' # "failed"
          /\ pkg_name \in DOMAIN CACHE_INDEX'
          /\ CACHE_INDEX'[pkg_name] = FetchedIndex(remote[pkg_name])]_vars

\* C21: get_wheel_index stores an index in CACHE_INDEX and in the index file
\* only when every page request of the call was served: a call in which a
\* request raised (any of the three channels of a torch-family name
\* included) leaves the cache and the index directory as they were, and a
\* call that fetched with every request served stores the index in both.
C21_StoredOnlyAfterAllFetches ==
    [][(pc = "index" /\ pc' # pc)
       => /\ ~FetchOk(fetched')
             => /\ CACHE_INDEX' = CACHE_INDEX
                /\ index_files' = index_files
                /\ pc' = "failed"
          /\ (CACHE_INDEX' # CACHE_INDEX \/ index_files' # index_files)
             => /\ Len(fetched') = Len(Channels(pkg_name))
                /\ FetchOk(fetched')
          /\ (Len(fetched') > 0 /\ FetchOk(fetched'))
             => /\ pkg_name \in DOMAIN CACHE_INDEX'
                /\ pkg_name \in DOMAIN index_files']_vars

\* A torch call whose third channel raised after two were served: nothing
\* was cached or written.
C21_Witness ==
    /\ pkg_name = "torch"
    /\ fetched = <<TRUE, TRUE, FALSE>>
    /\ pc = "failed"
    /\ err = "TransportError"
    /\ CACHE_INDEX = EmptyMap
    /\ index_files = EmptyMap

\* The links of the page served for the package asked for.
Links == IF pkg_name \in DOMAIN page THEN page[pkg_name] ELSE <<>>

\* The index the last call of get_wheel_index returned.
ReturnedIndex == IndexOf(pkg_name)

\* The link is kept: the index holds an entry with its URL.
Kept(x) == \E e \in Range(ReturnedIndex) : e.url = x.url

\* Two written names are equal up to letter case and "_" versus "-".
SameName(a, b) == replace(lower(a)) = replace(lower(b))

\* The version of the file name parses, and so does the tag segment of a
\* wheel.
Parseable(file_name) ==
    /\ ~InvalidVersion(file_name.version)
    /\ file_name.ext = "whl" => Len(file_name.segment) = 3

\* C22: a link whose file name parses is kept in the index iff the file name
\* ends in .whl or .tar.gz and its package name equals the package asked for
\* up to letter case and "_" versus "-"; names with a separator, wheels and
\* sdists alike.
C22_KeptIffNameMatches ==
    pc = "select"
    => \A x \in Range(Links) :
          Parseable(x.name)
          => (Kept(x) <=> /\ x.name.ext \in {"whl", "tar.gz"}
                          /\ SameName(x.name.written, PaName(pkg_name)))

\* The links that are listings of the package asked for: filter_package
\* keeps them and they carry its name.
PackageListings ==
    {x \in Range(Links) : /\ filter_package(PaName(pkg_name), x)
                          /\ SameName(x.name.written, PaName(pkg_name))}

\* The entry is the parse of the link with its URL.
PairedWith(e, x) ==
    /\ e.url = x.url
    /\ e.name = x.name
    /\ e.package_version = ParseVersion(x.name.version)
    /\ e.extension = x.name.ext

\* C23: a listing whose version or tag segment does not parse is dropped
\* alone: the index returned holds exactly the listings that parse, each with
\* its own URL, and a call whose pages were served raises no error.
C23_UnparseableDroppedAlone ==
    /\ [](pc = "select"
          => /\ \A x \in PackageListings : Kept(x) <=> Parseable(x.name)
             /\ \A e \in Range(ReturnedIndex) :
                   \E x \in Range(Links) : PairedWith(e, x))
    /\ [][(pc = "index" /\ pc' # pc /\ FetchOk(fetched')) => pc' = "select"]_vars

\* A page of two listings of the package, the first with a version that does
\* not parse: the index returned holds the second alone, under its URL.
C23_Witness ==
    /\ pc = "select"
    /\ Len(Links) = 2
    /\ Range(Links) = PackageListings
    /\ ~Parseable(Links[1].name)
    /\ Len(ReturnedIndex) = 1
    /\ PairedWith(ReturnedIndex[1], Links[2])

\* C25: in every index get_wheel_index returns, fetched and parsed, cached or
\* decoded from the index file, an sdist carries no tags (None) and a wheel
\* carries a non-empty collection of tags.
C25_TagsFollowExtension ==
    pc = "select"
    => \A x \in Range(ReturnedIndex) :
          /\ x.extension = "tar.gz" => x.tags = None
          /\ x.extension = "whl" => (x.tags # None /\ x.tags # {})

\* A later run decoded from the index file an index of a wheel and an sdist.
C25_Witness ==
    /\ pc = "select"
    /\ CACHE_INDEX = EmptyMap
    /\ pkg_name \in DOMAIN index_files
    /\ \E x, y \in Range(ReturnedIndex) :
          x.extension = "tar.gz" /\ y.extension = "whl"

\* The entry can be decoded: it has a name, its constraints and its markers
\* parse.
Decodable(dep) ==
    /\ dep.package_name # ""
    /\ ~InvalidSpecifier(dep.constraints)
    /\ \A i \in 1..Len(dep.markers) : ~InvalidMarker(dep.markers[i])

\* The declaration an entry that can be decoded stands for.
DeclOf(dep) ==
    Decl(dep.package_name, dep.package_extra, dep.constraints, dep.markers)

\* C24: parse_wheels_dependency skips an entry it cannot decode and returns
\* the declarations of the other entries, in their order; the run does not
\* end on it.
C24_BadEntrySkipped ==
    [][(pc = "parse" /\ pc' # pc)
       => LET deps_str == requires_dist[best_match.name]
              good == SelectSeq(deps_str, Decodable)
          IN  /\ pc' = "parsed"
              /\ best_match.name \in DOMAIN meta'
              /\ meta'[best_match.name].pkg_deps
                    = [i \in 1..Len(good) |-> DeclOf(good[i])]]_vars

\* C26: when the script ends with an empty worklist, every package of the
\* requirement map has a selected artifact, and the version of the artifact
\* selected last for it is accepted by the final constraint of the package.
C26_FinalSelectionAccepted ==
    pc = "done"
    => \A n \in DOMAIN new_req :
          /\ n \in DOMAIN resolved
          /\ Contains(new_req[n].package_version,
                      resolved[n].artifact.package_version)

\* The declarations of the artifact selected last for n that are active
\* under the final extras of n.
FinalDecls(n) ==
    LET ds == meta[resolved[n].artifact.name].pkg_deps IN
    {ds[i] : i \in {j \in 1..Len(ds) :
                       check_package_dependency(ds[j], new_req[n].package_extra)}}

\* C27: when the script ends with an empty worklist, every package of the
\* requirement map was selected and downloaded, and every declaration of its
\* last selected artifact that is active under its final extras names a
\* package of the requirement map.
C27_RequirementsClosed ==
    pc = "done"
    => \A n \in DOMAIN new_req :
          /\ n \in DOMAIN resolved
          /\ resolved[n].artifact.name \in DOMAIN wheels
          /\ \A d \in FinalDecls(n) : d.package_name \in DOMAIN new_req

\* A finished run in which a root requirement got an extra from a later
\* declaration, and the package its artifact declares under that extra was
\* selected and downloaded in turn.
C27_Witness ==
    /\ pc = "done"
    /\ \E n \in DOMAIN resolved : \E d \in FinalDecls(n) :
          /\ n \in DOMAIN InitialReq(req)
          /\ InitialReq(req)[n].package_extra = {}
          /\ ~check_package_dependency(d, {})
          /\ d.package_name \in DOMAIN resolved
          /\ resolved[d.package_name].artifact.name \in DOMAIN wheels

\* C28: the step that rejects a downloaded wheel for its interpreter
\* constraint and backtracks changes the candidate choice only: the
\* requirement map, the worklist and the accepted selections are as before,
\* so no declaration of the rejected wheel is merged, and the requirement in
\* hand stays the same.
C28_RejectionMergesNothing ==
    [][(pc = "dep_fetch" /\ ~PyOk(best_match) /\ pc' = "dep_fetch")
       => /\ UNCHANGED <<new_req, dep_pkg_names, resolved>>
          /\ UNCHANGED <<pkg_name, pkg_spec, pkg_extra>>
          /\ Len(candidate) > 0
          /\ best_match' = candidate[Len(candidate)]
          /\ candidate' = SubSeq(candidate, 1, Len(candidate) - 1)]_vars

\* A wheel was rejected whose active declarations would change the
\* requirement map if they were merged; the fallback is in hand.
C28_Witness ==
    /\ pc = "dep_fetch"
    /\ Len(tried) > 0
    /\ ~PyOk(tried[1])
    /\ best_match # tried[1]
    /\ MergeAll(new_req, ReqDeps(meta[tried[1].name].pkg_deps, pkg_extra))
          # new_req

\* The packages the wheels of the package p declare.
Declared(p) ==
    {d.package_name :
        d \in UNION {Range(meta[x.name].pkg_deps) :
                        x \in {e \in Range(remote[p]) : e.extension = "whl"}}}

\* The packages one declaration away from a package of S.
Successors(S) == UNION {Declared(p) : p \in S}

\* No name reaches itself along declarations: the names being six, a cycle
\* has at most six edges.
Acyclic ==
    \A p \in DOMAIN remote :
        LET S1 == Declared(p)
            S2 == S1 \cup Successors(S1)
            S3 == S2 \cup Successors(S2)
            S4 == S3 \cup Successors(S3)
            S5 == S4 \cup Successors(S4)
            S6 == S5 \cup Successors(S5)
        IN  p \notin S6

\* C29: on an acyclic dependency graph (the graph never changes in a run) the
\* script ends, finished or failed: every backtracking step shortens the
\* list of fallbacks, and the worklist runs empty although every mention of
\* a package appends its name.
C29_AcyclicTerminates ==
    /\ <>(Acyclic => pc \in {"done", "failed"})
    /\ [][(pc = "dep_fetch" /\ pc' = "dep_fetch")
            => Len(candidate') = Len(candidate) - 1]_vars

\* A run on an acyclic graph finished after a package was selected both as a
\* root and from the worklist and a rejected wheel was backtracked over.
C29_Witness ==
    /\ Acyclic
    /\ pc = "done"
    /\ \E i \in 1..Len(req) :
          /\ req[i].package_name \in DOMAIN resolved
          /\ resolved[req[i].package_name].package_extra # req[i].package_extra
    /\ \E f \in DOMAIN wheels : ~meta[f].py_ok

\* C30: for one package, get_wheel_index returns the same index, entry by
\* entry in the same ascending order, whether it fetched it, took it from
\* CACHE_INDEX or decoded it from the index file; decoding what was encoded
\* gives the entry back.
C30_SameIndexFromEverySource ==
    pc = "select"
    => /\ ReturnedIndex = FetchedIndex(Served(pkg_name))
       /\ Ascending(ReturnedIndex)
       /\ \A x \in Range(ReturnedIndex) :
             decode_index_data(encode_index_data(x)) = x

\* A later run decoded from the index file an index of two entries that the
\* fetch had put in another order than the page, one of them a pre-release
\* or a local build.
C30_Witness ==
    /\ pc = "select"
    /\ CACHE_INDEX = EmptyMap
    /\ pkg_name \in DOMAIN index_files
    /\ Len(ReturnedIndex) = 2
    /\ ReturnedIndex[1].url = 2
    /\ \E x \in Range(ReturnedIndex) :
          x.package_version.pre # "final" \/ x.package_version.local # ""

\* C31: get_suitable_package and the popping of fallback candidates leave the
\* index held in CACHE_INDEX as it was stored: a cached index is the complete
\* sorted index served for its package, no step changes or drops a cached
\* index, and a dependency selected from the cache gets every eligible entry
\* of the complete index as its best match and fallbacks.
C31_CachedIndexKept ==
    /\ [](\A n \in DOMAIN CACHE_INDEX :
            CACHE_INDEX[n] = FetchedIndex(Served(n)))
    /\ [][\A n \in DOMAIN CACHE_INDEX :
            /\ n \in DOMAIN CACHE_INDEX'
            /\ CACHE_INDEX'[n] = CACHE_INDEX[n]]_vars
    /\ [][(pc = "dep" /\ pc' = "dep_fetch" /\ IndexCached(pkg_name'))
            => Range(candidate') \cup {best_match'}
                 = {x \in Range(FetchedIndex(Served(pkg_name'))) :
                      Eligible(x, pkg_spec')}]_vars

\* A package resolved before on a lower version is selected again from the
\* cache, and its first candidate is a wheel the runtime rejects: the wheel
\* was popped over in the earlier backtracking and is still in the cache.
C31_Witness ==
    /\ pc = "dep_fetch"
    /\ tried = <<>>
    /\ ~PyOk(best_match)
    /\ pkg_name \in DOMAIN resolved
    /\ VerLt(resolved[pkg_name].artifact.package_version,
             best_match.package_version)
    /\ IndexCached(pkg_name)
    /\ best_match \in Range(CACHE_INDEX[pkg_name])

\* C32: the requirement map holds at most one requirement per package: no two
\* of its names are one package written with another letter case or
\* separator, and a merge step puts the extras and the constraint of every
\* active declaration into every requirement of the package it names,
\* however the declaration spells it.
C32_OneRequirementPerPackage ==
    /\ [](\A a, b \in DOMAIN new_req :
            NormalizedName(a) = NormalizedName(b) => a = b)
    /\ [][MergeStep =>
            \A d \in ActiveDecls : \A n \in DOMAIN new_req' :
                NormalizedName(n) = NormalizedName(d.package_name)
                => /\ d.package_extra \subseteq new_req'[n].package_extra
                   /\ \A v \in ReleaseVersions :
                         Accepts(new_req'[n], v)
                         => Contains(d.package_version, v)]_vars

====
